---------------------------- MODULE Spec2Model ----------------------------
(***************************************************************************)
(* Model of the BOLD preprocessing pipeline of Mouse_fmriPype:             *)
(*   - ConfoundRegression and its helpers (preprocess_bold_pkg/confounds)  *)
(*   - the graphs built by init_bold_confs_wf, init_func_preproc_wf,       *)
(*     init_bold_hmc_wf, init_bold_preproc_trans_wf and                    *)
(*     init_bold_commonspace_trans_wf                                      *)
(*   - the execution of the built graph, stage by stage                    *)
(*   - the memory estimate _create_mem_gb                                  *)
(***************************************************************************)
EXTENDS Integers, Sequences, FiniteSets, TLC

VARIABLES
    inp,        \* inputs of one ConfoundRegression invocation
    res,        \* what that invocation left behind (outcome, attributes)
    fs,         \* files written so far: path -> content
    bold_file,  \* the file handed to _create_mem_gb
    mem,        \* what _create_mem_gb returned
    cfg,        \* flags of init_func_preproc_wf
    target,     \* which workflow is being built
    pc,         \* position inside the builder
    nodes,      \* nodes added to the workflow so far
    edges,      \* connections made so far
    parts,      \* nodes and sub-workflows constructed, not yet connected
    env,        \* artifacts the external stages produce in a run
    deps,       \* run: stage -> the stages whose outputs it consumes
    status,     \* run: stage -> waiting / running / done / failed
    results,    \* run: ConfoundRegression node -> its result record
    writes      \* run: the <<stage, path>> pairs of the files written so far

vars == <<inp, res, fs, bold_file, mem, cfg, target, pc, nodes, edges,
          parts, env, deps, status, results,
          writes>>

(***************************************************************************)
(* Bounds of the model                                                     *)
(***************************************************************************)
MaxVols == 3
NVox == 2
MaxSizeUnits == 10
MaxTlenSteps == 6
TlenStep == 50
MaxThreads == 2
MaxRunVols == 1

(***************************************************************************)
(* Exact arithmetic on non-negative rationals, standing for the float      *)
(* arithmetic of the source (rounding is not modelled).                    *)
(***************************************************************************)
RECURSIVE GCD(_, _)
GCD(a, b) == IF b = 0 THEN a ELSE GCD(b, a % b)

Rat(n, d) == LET g == GCD(n, d) IN [n |-> n \div g, d |-> d \div g]

RInt(k) == Rat(k, 1)

RAdd(a, b) == Rat(a.n * b.d + b.n * a.d, a.d * b.d)

RMul(a, b) == Rat(a.n * b.n, a.d * b.d)

RLeq(a, b) == a.n * b.d <= b.n * a.d

RMax(a, b) == IF RLeq(a, b) THEN b ELSE a

RECURSIVE SumOver(_, _)
SumOver(S, f) ==
    IF S = {} THEN 0
    ELSE LET x == CHOOSE y \in S : TRUE IN f[x] + SumOver(S \ {x}, f)

(***************************************************************************)
(* confounds.py: the helpers of ConfoundRegression                         *)
(***************************************************************************)
num_confounds == 9

csv_columns == <<"WM_signal", "CSF_signal", "global_signal",
                 "mov1", "mov2", "mov3", "rot1", "rot2", "rot3">>

\* the name taken as it stands, whatever the current directory
abspath_nocwd(cwd, name) == <<<<>>, name>>

\* os.path.abspath(name): the name resolved against the current directory
abspath(cwd, name) == <<cwd, name>>

\* float(field) of a numeric csv field
float(field) == RInt(field)

\* np.mean(apply_mask(bold, mask), 1): one mean over the mask per volume
extract_mask_trace(bold, mask) ==
    [t \in 1..Len(bold) |-> Rat(SumOver(mask, bold[t]), Cardinality(mask))]

\* The rows of the csv file, the first one dropped; fields 2.. (0-based) of
\* each row land in columns 0.. of a zero-initialised (rows-1) x 6 array.
\* Rows and columns are 1-based here: field c+2 lands in column c.
extract_rigid_movpar(movpar_csv) ==
    LET temp == movpar_csv
        rows == Tail(temp)
    IN  IF Len(temp) = 0
        THEN [err |-> "ValueError", movpar |-> <<>>]
        ELSE IF \E j \in 1..Len(rows) : Len(rows[j]) > 8
        THEN [err |-> "IndexError", movpar |-> <<>>]
        ELSE [err |-> "none",
              movpar |-> [j \in 1..Len(rows) |->
                            [c \in 1..6 |->
                               IF c + 2 <= Len(rows[j])
                               THEN float(rows[j][c + 2])
                               ELSE RInt(0)]]]

\* confounds[:,3:9] = movpar: numpy assigns row by row when the row counts
\* agree, repeats a single row over all rows (broadcasting), and raises
\* ValueError otherwise.
AssignMovpar(n, movpar) ==
    IF Len(movpar) = n
    THEN [err |-> "none", rows |-> movpar]
    ELSE IF Len(movpar) = 1
    THEN [err |-> "none", rows |-> [t \in 1..n |-> movpar[1]]]
    ELSE [err |-> "ValueError", rows |-> <<>>]

\* np.r_[a:b] as the sequence a, a+1, ..., b-1
Range(a, b) == [i \in 1..(b - a) |-> a + i - 1]

\* the column indices handed to clean_bold (0-based, as in the source)
AllCols == Range(0, num_confounds)

NoGSRCols == Range(0, 3) \o Range(4, 9)

RegressedCols(apply_GSR) == IF apply_GSR THEN AllCols ELSE NoGSRCols

\* confounds[:, cols]
TakeCols(confounds, cols) ==
    [t \in 1..Len(confounds) |->
        [k \in 1..Len(cols) |-> confounds[t][cols[k] + 1]]]

\* the text table DataFrame.to_csv writes: a header line whose first field
\* (the index label) is empty, then one line per row: row index, 9 values
to_csv_noindex(confound_array, column_names) ==
    [header |-> column_names,
     rows   |-> confound_array]

to_csv(confound_array, column_names) ==
    [header |-> <<"">> \o column_names,
     rows   |-> [t \in 1..Len(confound_array) |->
                   <<t - 1>> \o confound_array[t]]]

write_confound_csv(cwd, files, confound_array, column_names) ==
    LET csv_path == abspath(cwd, "confounds.csv")
    IN  [path |-> csv_path,
         fs   |-> [p \in (DOMAIN files) \cup {csv_path} |->
                     IF p = csv_path
                     THEN to_csv(confound_array, column_names)
                     ELSE files[p]]]

\* clean_img + smooth_img are external: the cleaned image is recorded as
\* the series it was computed from and the regressors it was given
clean_bold(cwd, files, bold, confounds_array) ==
    LET cleaned_path == abspath(cwd, "cleaned.nii.gz")
    IN  [path |-> cleaned_path,
         fs   |-> [p \in (DOMAIN files) \cup {cleaned_path} |->
                     IF p = cleaned_path
                     THEN [series |-> bold, regressors |-> confounds_array]
                     ELSE files[p]]]

NoResult ==
    [outcome |-> "none", confounds |-> <<>>, cols |-> <<>>,
     cleaned_bold |-> <<>>, confounds_csv |-> <<>>]

\* ConfoundRegression._run_interface on the inputs i, in directory cwd,
\* with the files `files` on disk.  i.clean_ok says whether the external
\* regression (clean_img, smooth_img, to_filename) succeeds; when it
\* raises, the attributes stay unset and the table is already on disk.
RunInterface(i, cwd, files) ==
    LET WM_signal == extract_mask_trace(i.bold, i.WM_mask)
        n  == Len(WM_signal)
        c1 == extract_mask_trace(i.bold, i.CSF_mask)
        c2 == extract_mask_trace(i.bold, i.brain_mask)
        mp == extract_rigid_movpar(i.movpar_file)
        am == AssignMovpar(n, mp.movpar)
        confounds == [t \in 1..n |->
                        <<WM_signal[t], c1[t], c2[t]>> \o am.rows[t]]
        w  == write_confound_csv(cwd, files, confounds, csv_columns)
        cols == RegressedCols(i.apply_GSR)
        cl == clean_bold(cwd, w.fs, i.bold, TakeCols(confounds, cols))
    IN  IF mp.err # "none"
        THEN [res |-> [NoResult EXCEPT !.outcome = mp.err], fs |-> files,
              written |-> {}]
        ELSE IF am.err # "none"
        THEN [res |-> [NoResult EXCEPT !.outcome = am.err], fs |-> files,
              written |-> {}]
        ELSE IF ~i.clean_ok
        THEN [res |-> [NoResult EXCEPT !.outcome = "CleanError",
                                       !.confounds = confounds,
                                       !.cols = cols],
              fs  |-> w.fs,
              written |-> {w.path}]
        ELSE [res |-> [outcome |-> "ok", confounds |-> confounds,
                       cols |-> cols,
                       cleaned_bold |-> cl.path,
                       confounds_csv |-> w.path],
              fs  |-> cl.fs,
              written |-> {w.path, cl.path}]

\* MaskEPI._run_interface in directory cwd: antsApplyTransforms writes the
\* resampled mask to EPI_mask.nii.gz there
MaskEPI_run(cwd, files, resampled) ==
    LET new_mask_path == abspath(cwd, "EPI_mask.nii.gz")
    IN  [path |-> new_mask_path,
         fs   |-> [p \in (DOMAIN files) \cup {new_mask_path} |->
                     IF p = new_mask_path THEN resampled ELSE files[p]]]

(***************************************************************************)
(* Inputs of the regression                                                *)
(***************************************************************************)
Voxels == 1..NVox

Masks == (SUBSET Voxels) \ {{}}

BoldSlopes == {1, 2}

\* a series of n volumes over the voxels
BoldSeries(n, k) == [t \in 1..n |-> [v \in Voxels |-> k * t * v + v * v]]

Widths == {7, 8, 9}

\* a motion table: a header row, then r rows of w numeric fields
MovparTable(r, w) ==
    <<[f \in 1..w |-> "h"]>> \o
    [j \in 1..r |-> [f \in 1..w |-> 10 * j + f]]

RegressionInputs ==
    { [bold |-> BoldSeries(n, k), movpar_file |-> MovparTable(r, w),
       brain_mask |-> b, WM_mask |-> wm, CSF_mask |-> cs,
       apply_GSR |-> g, clean_ok |-> ok] :
        n \in 1..MaxVols, k \in BoldSlopes, r \in 0..(MaxVols + 1),
        w \in Widths, b \in Masks, wm \in Masks, cs \in Masks,
        g \in BOOLEAN, ok \in BOOLEAN }

NoFiles == [p \in {} |-> 0]

(***************************************************************************)
(* main_wf.py: _create_mem_gb                                              *)
(***************************************************************************)
GiB == 1073741824

SizeUnit == GiB \div 8

\* the claimed estimate, the 4 added after the multiplication
_create_mem_gb_add_after(f) ==
    LET bold_size_gb == Rat(f.size, GiB)
        bold_tlen == f.shape[Len(f.shape)]
    IN  [bold_tlen |-> bold_tlen,
         mem_gb |-> [filesize  |-> bold_size_gb,
                     resampled |-> RMul(bold_size_gb, RInt(4)),
                     largemem  |-> RAdd(RMul(bold_size_gb,
                                             RMax(Rat(bold_tlen, 100), RInt(1))),
                                        RInt(4))]]

_create_mem_gb(f) ==
    LET bold_size_gb == Rat(f.size, GiB)
        bold_tlen == f.shape[Len(f.shape)]
    IN  [bold_tlen |-> bold_tlen,
         mem_gb |-> [filesize  |-> bold_size_gb,
                     resampled |-> RMul(bold_size_gb, RInt(4)),
                     largemem  |-> RMul(bold_size_gb,
                                        RAdd(RMax(Rat(bold_tlen, 100), RInt(1)),
                                             RInt(4)))]]

\* 4-D series files: a size in bytes and a shape whose last entry is the
\* temporal length
BoldFiles ==
    { [size |-> k * SizeUnit, shape |-> <<4, 4, 4, j * TlenStep>>] :
        k \in 1..MaxSizeUnits, j \in 1..MaxTlenSteps }

(***************************************************************************)
(* Nodes, interfaces and workflows                                         *)
(*                                                                         *)
(* A node is a record: its full name, its interface class, the input and   *)
(* output ports the interface declares, the mandatory input ports, and     *)
(* the input ports set at construction time (port, value).  An edge is     *)
(* <<source node, source port, destination node, destination port>>.  A    *)
(* workflow is a set of nodes and a set of edges.                          *)
(***************************************************************************)
\* a full name is the path of workflow names down to the node
Sub(wf, n) == wf \o <<n>>

\* the elements of a list
SetOf(list) == { list[i] : i \in 1..Len(list) }

Node(name, iface, ins, outs, mandatory, set) ==
    [name |-> name, iface |-> iface, ins |-> SetOf(ins), outs |-> SetOf(outs),
     mandatory |-> SetOf(mandatory), set |-> SetOf(set)]

IdentityInterface(name, fields) ==
    Node(name, "IdentityInterface", fields, fields, <<>>, <<>>)

MaskEPI(name, set) ==
    Node(name, "MaskEPI",
         <<"mask", "ref_EPI", "EPI_to_anat_trans", "use_transforms">>,
         <<"EPI_mask">>,
         <<"mask", "ref_EPI", "use_transforms">>, set)

ConfoundRegression(name, set) ==
    Node(name, "ConfoundRegression",
         <<"bold", "movpar_file", "brain_mask", "WM_mask", "CSF_mask",
          "apply_GSR", "motioncorr_24params">>,
         <<"cleaned_bold", "confounds_csv">>,
         <<"bold", "movpar_file", "brain_mask", "WM_mask", "CSF_mask",
          "apply_GSR", "motioncorr_24params">>, set)

EstimateMotion(name) ==
    Node(name, "EstimateMotion", <<"in_file", "ref_file">>,
         <<"motcorr_params", "csv_params">>, <<"in_file", "ref_file">>, <<>>)

\* Skullstrip, slice_applyTransforms and Merge live in utils: their ports
\* are the ones their callers connect or set
Skullstrip(name) ==
    Node(name, "Skullstrip", <<"in_file", "brain_mask">>,
         <<"skullstrip_brain">>, <<>>, <<>>)

slice_applyTransforms(name, set) ==
    Node(name, "slice_applyTransforms",
         <<"in_file", "motcorr_params", "transforms", "inverses", "ref_file",
          "apply_motcorr", "isotropic_resampling", "upsampling", "data_type">>,
         <<"out_files">>, <<>>, set)

Merge(name, set) ==
    Node(name, "Merge", <<"header_source", "in_files", "data_type">>,
         <<"out_file">>, <<>>, set)

BoolStr(b) == IF b THEN "True" ELSE "False"

\* workflow.connect([(src, dst, [(out, in), ...])])
Conn(src, dst, pairs) ==
    { <<src, pairs[i][1], dst, pairs[i][2]>> : i \in 1..Len(pairs) }

Names(N) == { nd.name : nd \in N }

\* A sub-workflow whose module is not part of the sources: an inputnode and
\* an outputnode with the ports its caller connects, and one stage between
\* them that stands for its content.
OpaqueWf(name, ins, outs, set) ==
    [nodes |-> { IdentityInterface(Sub(name, "inputnode"), ins),
                 Node(Sub(name, "stages"), "Opaque", ins, outs, <<>>, set),
                 IdentityInterface(Sub(name, "outputnode"), outs) },
     edges |-> { <<Sub(name, "inputnode"), ins[i], Sub(name, "stages"), ins[i]>> :
                    i \in 1..Len(ins) }
               \cup
               { <<Sub(name, "stages"), outs[i], Sub(name, "outputnode"), outs[i]>> :
                    i \in 1..Len(outs) }]

init_bold_reference_wf(name) ==
    OpaqueWf(name, <<"bold_file">>, <<"ref_image", "bold_file", "skip_vols">>, <<>>)

bias_correction_wf(iterative, name) ==
    OpaqueWf(name, <<"ref_EPI", "anat", "anat_mask">>,
             <<"corrected_EPI">>, << <<"iterative", BoolStr(iterative)>> >>)

init_bold_stc_wf(TR, name) ==
    OpaqueWf(name, <<"skip_vols", "bold_file">>, <<"stc_file">>,
             << <<"TR", TR>> >>)

init_bold_reg_wf(SyN_reg, name) ==
    OpaqueWf(name, <<"anat_preproc", "anat_mask", "ref_bold_brain">>,
             <<"itk_bold_to_anat", "itk_anat_to_bold", "output_warped_bold">>,
             << <<"SyN_reg", BoolStr(SyN_reg)>> >>)

(***************************************************************************)
(* hmc.py: init_bold_hmc_wf                                                *)
(***************************************************************************)
init_bold_hmc_wf(name) ==
    LET inputnode  == Sub(name, "inputnode")
        outputnode == Sub(name, "outputnode")
        motion_estimation == Sub(name, "ants_MC")
    IN  [nodes |-> { IdentityInterface(inputnode, <<"bold_file", "ref_image">>),
                     IdentityInterface(outputnode, <<"xforms", "movpar_file">>),
                     EstimateMotion(motion_estimation) },
         edges |->
            Conn(inputnode, motion_estimation,
                 << <<"ref_image", "ref_file">>, <<"bold_file", "in_file">> >>)
            \cup
            Conn(motion_estimation, outputnode,
                 << <<"motcorr_params", "xforms">>,
                  <<"csv_params", "movpar_file">> >>)]

(***************************************************************************)
(* confounds.py: init_bold_confs_wf                                        *)
(***************************************************************************)
\* the series taken before the skull-strip stage
ConfsInputs_unstripped(inputnode, skullstrip, WM, CSF, brain, regression) ==
    Conn(inputnode, regression,
         << <<"movpar_file", "movpar_file">>, <<"bold", "bold">> >>)
    \cup Conn(WM, regression, << <<"EPI_mask", "WM_mask">> >>)
    \cup Conn(CSF, regression, << <<"EPI_mask", "CSF_mask">> >>)
    \cup Conn(brain, regression, << <<"EPI_mask", "brain_mask">> >>)

\* the inputs of a regression node: lines 44-46 and 51-59 for
\* confound_regression, lines 70-81 for GSR_confound_regression
ConfsInputs(inputnode, skullstrip, WM, CSF, brain, regression) ==
    Conn(inputnode, regression, << <<"movpar_file", "movpar_file">> >>)
    \cup Conn(skullstrip, regression, << <<"skullstrip_brain", "bold">> >>)
    \cup Conn(WM, regression, << <<"EPI_mask", "WM_mask">> >>)
    \cup Conn(CSF, regression, << <<"EPI_mask", "CSF_mask">> >>)
    \cup Conn(brain, regression, << <<"EPI_mask", "brain_mask">> >>)

\* the second regression fed the CSF mask as its white-matter mask
GSRBranch_csf_as_wm(inputnode, skullstrip, WM, CSF, brain, regression, outputnode) ==
    ConfsInputs(inputnode, skullstrip, CSF, CSF, brain, regression)
    \cup Conn(regression, outputnode,
              << <<"cleaned_bold", "GSR_cleaned_bold">> >>)

\* lines 68-85
GSRBranch(inputnode, skullstrip, WM, CSF, brain, regression, outputnode) ==
    ConfsInputs(inputnode, skullstrip, WM, CSF, brain, regression)
    \cup Conn(regression, outputnode,
              << <<"cleaned_bold", "GSR_cleaned_bold">> >>)

init_bold_confs_wf(apply_GSR, name) ==
    LET inputnode  == Sub(name, "inputnode")
        outputnode == Sub(name, "outputnode")
        WM_mask_to_EPI    == Sub(name, "WM_mask_EPI")
        CSF_mask_to_EPI   == Sub(name, "CSF_mask_EPI")
        brain_mask_to_EPI == Sub(name, "Brain_mask_EPI")
        propagate_labels  == Sub(name, "prop_labels_EPI")
        skullstrip        == Sub(name, "skullstrip")
        confound_regression     == Sub(name, "confound_regression")
        GSR_confound_regression == Sub(name, "GSR_confound_regression")
        noTrans == << <<"use_transforms", "False">> >>
    IN  [nodes |->
            { IdentityInterface(inputnode,
                 <<"bold", "ref_bold", "movpar_file", "t1_mask", "t1_labels",
                  "WM_mask", "CSF_mask">>),
              IdentityInterface(outputnode,
                 <<"cleaned_bold", "GSR_cleaned_bold", "EPI_labels",
                  "confounds_csv">>),
              MaskEPI(WM_mask_to_EPI, noTrans),
              MaskEPI(CSF_mask_to_EPI, noTrans),
              MaskEPI(brain_mask_to_EPI, noTrans),
              MaskEPI(propagate_labels, noTrans),
              Skullstrip(skullstrip),
              ConfoundRegression(confound_regression,
                 << <<"apply_GSR", "False">>,
                  <<"motioncorr_24params", "False">> >>) }
            \cup
            (IF apply_GSR
             THEN { ConfoundRegression(GSR_confound_regression,
                       << <<"apply_GSR", "True">>,
                        <<"motioncorr_24params", "False">> >>) }
             ELSE {}),
         edges |->
            Conn(inputnode, WM_mask_to_EPI,
                 << <<"WM_mask", "mask">>, <<"ref_bold", "ref_EPI">> >>)
            \cup Conn(inputnode, CSF_mask_to_EPI,
                 << <<"CSF_mask", "mask">>, <<"ref_bold", "ref_EPI">> >>)
            \cup Conn(inputnode, brain_mask_to_EPI,
                 << <<"t1_mask", "mask">>, <<"ref_bold", "ref_EPI">> >>)
            \cup Conn(inputnode, propagate_labels,
                 << <<"t1_labels", "mask">>, <<"ref_bold", "ref_EPI">> >>)
            \cup Conn(inputnode, skullstrip, << <<"bold", "in_file">> >>)
            \cup Conn(brain_mask_to_EPI, skullstrip,
                 << <<"EPI_mask", "brain_mask">> >>)
            \cup ConfsInputs(inputnode, skullstrip, WM_mask_to_EPI,
                             CSF_mask_to_EPI, brain_mask_to_EPI,
                             confound_regression)
            \cup Conn(propagate_labels, outputnode,
                 << <<"EPI_mask", "EPI_labels">> >>)
            \cup Conn(confound_regression, outputnode,
                 << <<"cleaned_bold", "cleaned_bold">>,
                  <<"confounds_csv", "confounds_csv">> >>)
            \cup
            (IF apply_GSR
             THEN GSRBranch(inputnode, skullstrip, WM_mask_to_EPI,
                            CSF_mask_to_EPI, brain_mask_to_EPI,
                            GSR_confound_regression, outputnode)
             ELSE {})]

(***************************************************************************)
(* resampling.py: init_bold_preproc_trans_wf and                           *)
(* init_bold_commonspace_trans_wf                                          *)
(***************************************************************************)
init_bold_preproc_trans_wf(name) ==
    LET inputnode  == Sub(name, "inputnode")
        outputnode == Sub(name, "outputnode")
        bold_transform == Sub(name, "bold_transform")
        merge == Sub(name, "merge")
        bold_reference_wf ==
            init_bold_reference_wf(Sub(name, "bold_reference_wf"))
        ref_in  == Sub(Sub(name, "bold_reference_wf"), "inputnode")
        ref_out == Sub(Sub(name, "bold_reference_wf"), "outputnode")
    IN  [nodes |->
            { IdentityInterface(inputnode,
                 <<"name_source", "bold_file", "motcorr_params",
                  "transforms_list", "inverses", "ref_file">>),
              IdentityInterface(outputnode, <<"bold", "bold_ref">>),
              slice_applyTransforms(bold_transform,
                 << <<"apply_motcorr", "True">>,
                  <<"isotropic_resampling", "isotropic_resampling">>,
                  <<"upsampling", "upsampling">>,
                  <<"data_type", "data_type">> >>),
              Merge(merge, << <<"data_type", "data_type">> >>) }
            \cup bold_reference_wf.nodes,
         edges |->
            Conn(inputnode, merge, << <<"name_source", "header_source">> >>)
            \cup Conn(inputnode, bold_transform,
                 << <<"bold_file", "in_file">>,
                  <<"motcorr_params", "motcorr_params">>,
                  <<"transforms_list", "transforms">>,
                  <<"inverses", "inverses">>,
                  <<"ref_file", "ref_file">> >>)
            \cup Conn(bold_transform, merge, << <<"out_files", "in_files">> >>)
            \cup Conn(merge, ref_in, << <<"out_file", "bold_file">> >>)
            \cup Conn(merge, outputnode, << <<"out_file", "bold">> >>)
            \cup Conn(ref_out, outputnode, << <<"ref_image", "bold_ref">> >>)
            \cup bold_reference_wf.edges]

init_bold_commonspace_trans_wf(name) ==
    LET inputnode  == Sub(name, "inputnode")
        outputnode == Sub(name, "outputnode")
        bold_transform == Sub(name, "bold_transform")
        merge == Sub(name, "merge")
        bold_reference_wf ==
            init_bold_reference_wf(Sub(name, "bold_reference_wf"))
        ref_in  == Sub(Sub(name, "bold_reference_wf"), "inputnode")
        ref_out == Sub(Sub(name, "bold_reference_wf"), "outputnode")
        WM_mask_to_EPI    == Sub(name, "WM_mask_EPI")
        CSF_mask_to_EPI   == Sub(name, "CSF_mask_EPI")
        brain_mask_to_EPI == Sub(name, "Brain_mask_EPI")
        propagate_labels  == Sub(name, "prop_labels_EPI")
    IN  [nodes |->
            { IdentityInterface(inputnode,
                 <<"name_source", "bold_file", "transforms_list", "inverses">>),
              IdentityInterface(outputnode,
                 <<"bold", "bold_ref", "brain_mask", "WM_mask", "CSF_mask",
                  "labels">>),
              slice_applyTransforms(bold_transform,
                 << <<"ref_file", "environ:template_anat">>,
                  <<"apply_motcorr", "False">>,
                  <<"isotropic_resampling", "isotropic_resampling">>,
                  <<"upsampling", "upsampling">>,
                  <<"data_type", "data_type">> >>),
              Merge(merge, << <<"data_type", "data_type">> >>),
              MaskEPI(WM_mask_to_EPI,
                 << <<"name_spec", "commonspace_WM_mask">>,
                  <<"mask", "environ:WM_mask">> >>),
              MaskEPI(CSF_mask_to_EPI,
                 << <<"name_spec", "commonspace_CSF_mask">>,
                  <<"mask", "environ:CSF_mask">> >>),
              MaskEPI(brain_mask_to_EPI,
                 << <<"name_spec", "commonspace_brain_mask">>,
                  <<"mask", "environ:template_mask">> >>),
              MaskEPI(propagate_labels,
                 << <<"name_spec", "commonspace_anat_labels">>,
                  <<"mask", "environ:atlas_labels">> >>) }
            \cup bold_reference_wf.nodes,
         edges |->
            Conn(inputnode, merge, << <<"name_source", "header_source">> >>)
            \cup Conn(inputnode, bold_transform,
                 << <<"bold_file", "in_file">>,
                  <<"transforms_list", "transforms">>,
                  <<"inverses", "inverses">> >>)
            \cup Conn(bold_transform, merge, << <<"out_files", "in_files">> >>)
            \cup Conn(merge, ref_in, << <<"out_file", "bold_file">> >>)
            \cup Conn(merge, outputnode, << <<"out_file", "bold">> >>)
            \cup Conn(ref_out, WM_mask_to_EPI, << <<"ref_image", "ref_EPI">> >>)
            \cup Conn(WM_mask_to_EPI, outputnode, << <<"EPI_mask", "WM_mask">> >>)
            \cup Conn(ref_out, CSF_mask_to_EPI, << <<"ref_image", "ref_EPI">> >>)
            \cup Conn(CSF_mask_to_EPI, outputnode,
                 << <<"EPI_mask", "CSF_mask">> >>)
            \cup Conn(ref_out, brain_mask_to_EPI,
                 << <<"ref_image", "ref_EPI">> >>)
            \cup Conn(brain_mask_to_EPI, outputnode,
                 << <<"EPI_mask", "brain_mask">> >>)
            \cup Conn(ref_out, propagate_labels, << <<"ref_image", "ref_EPI">> >>)
            \cup Conn(propagate_labels, outputnode,
                 << <<"EPI_mask", "labels">> >>)
            \cup Conn(ref_out, outputnode, << <<"ref_image", "bold_ref">> >>)
            \cup bold_reference_wf.edges]

(***************************************************************************)
(* main_wf.py: init_func_preproc_wf                                        *)
(***************************************************************************)
Configs == [apply_STC : BOOLEAN, apply_GSR : BOOLEAN,
            use_syn : BOOLEAN, iterative_N4 : BOOLEAN]

EmptyWf == [nodes |-> {}, edges |-> {}]

\* something constructed and not yet connected: a node or a sub-workflow
Part(name, wf) == [name |-> name, wf |-> wf]

SingleNode(nd) == [nodes |-> {nd}, edges |-> {}]

\* workflow.connect: the new edges, and with them the nodes and the inner
\* edges of every part one of the new edges touches
Connect(G, P, E) ==
    LET touched == { q \in P : \E e \in E :
                        \/ e[1] \in Names(q.wf.nodes)
                        \/ e[3] \in Names(q.wf.nodes) }
    IN  [nodes |-> G.nodes \cup UNION { q.wf.nodes : q \in touched },
         edges |-> G.edges \cup E \cup UNION { q.wf.edges : q \in touched }]

main_inputnode(name) ==
    IdentityInterface(Sub(name, "inputnode"),
        <<"bold_file", "reversed_bold_file", "anat_preproc", "anat_mask",
         "anat_labels", "WM_mask", "CSF_mask">>)

main_outputnode(name) ==
    IdentityInterface(Sub(name, "outputnode"),
        <<"bold_file", "bold_ref", "skip_vols", "hmc_xforms",
         "output_warped_bold", "itk_bold_to_anat", "itk_anat_to_bold",
         "resampled_bold", "resampled_ref_bold", "hmc_movpar_file",
         "cleaned_bold", "GSR_cleaned_bold", "EPI_labels", "confounds_csv">>)

boldbuffer(name) == IdentityInterface(Sub(name, "boldbuffer"), <<"bold_file">>)

\* lines 118-166
ConnectMainEdges(name) ==
    LET inputnode  == Sub(name, "inputnode")
        outputnode == Sub(name, "outputnode")
        ref_in   == Sub(Sub(name, "bold_reference_wf"), "inputnode")
        ref_out  == Sub(Sub(name, "bold_reference_wf"), "outputnode")
        bias_in  == Sub(Sub(name, "bias_cor_wf"), "inputnode")
        hmc_in   == Sub(Sub(name, "bold_hmc_wf"), "inputnode")
        hmc_out  == Sub(Sub(name, "bold_hmc_wf"), "outputnode")
        reg_in   == Sub(Sub(name, "bold_reg_wf"), "inputnode")
        reg_out  == Sub(Sub(name, "bold_reg_wf"), "outputnode")
        trans_in  == Sub(Sub(name, "bold_bold_trans_wf"), "inputnode")
        trans_out == Sub(Sub(name, "bold_bold_trans_wf"), "outputnode")
        confs_in  == Sub(Sub(name, "bold_confs_wf"), "inputnode")
        confs_out == Sub(Sub(name, "bold_confs_wf"), "outputnode")
    IN  Conn(inputnode, ref_in, << <<"bold_file", "bold_file">> >>)
        \cup Conn(ref_out, bias_in, << <<"ref_image", "ref_EPI">> >>)
        \cup Conn(inputnode, bias_in,
                  << <<"anat_preproc", "anat">>, <<"anat_mask", "anat_mask">> >>)
        \cup Conn(ref_out, hmc_in,
                  << <<"ref_image", "ref_image">>, <<"bold_file", "bold_file">> >>)
        \cup Conn(hmc_out, outputnode,
                  << <<"xforms", "hmc_xforms">>,
                   <<"movpar_file", "hmc_movpar_file">> >>)
        \cup Conn(ref_out, outputnode, << <<"ref_image", "bold_ref">> >>)
        \cup Conn(inputnode, outputnode, << <<"bold_file", "bold_file">> >>)
        \cup Conn(inputnode, reg_in,
                  << <<"anat_preproc", "anat_preproc">>,
                   <<"anat_mask", "anat_mask">> >>)
        \cup Conn(reg_out, outputnode,
                  << <<"itk_bold_to_anat", "itk_bold_to_anat">>,
                   <<"itk_anat_to_bold", "itk_anat_to_bold">>,
                   <<"output_warped_bold", "output_warped_bold">> >>)
        \cup Conn(Sub(name, "boldbuffer"), trans_in,
                  << <<"bold_file", "bold_file">> >>)
        \cup Conn(inputnode, trans_in, << <<"bold_file", "name_source">> >>)
        \cup Conn(hmc_out, trans_in, << <<"xforms", "hmc_xforms">> >>)
        \cup Conn(trans_out, outputnode,
                  << <<"bold_ref", "resampled_ref_bold">>,
                   <<"bold", "resampled_bold">> >>)
        \cup Conn(inputnode, confs_in,
                  << <<"anat_mask", "t1_mask">>, <<"WM_mask", "WM_mask">>,
                   <<"CSF_mask", "CSF_mask">>,
                   <<"anat_labels", "t1_labels">> >>)
        \cup Conn(trans_out, confs_in,
                  << <<"bold", "bold">>, <<"bold_ref", "ref_bold">> >>)
        \cup Conn(hmc_out, confs_in, << <<"movpar_file", "movpar_file">> >>)
        \cup Conn(confs_out, outputnode,
                  << <<"cleaned_bold", "cleaned_bold">>,
                   <<"GSR_cleaned_bold", "GSR_cleaned_bold">>,
                   <<"EPI_labels", "EPI_labels">>,
                   <<"confounds_csv", "confounds_csv">> >>)

\* the slice-timing workflow fed from the buffer it feeds
ConnectSTCEdges_from_buffer(name) ==
    Conn(Sub(Sub(name, "bold_reference_wf"), "outputnode"),
         Sub(Sub(name, "bold_stc_wf"), "inputnode"),
         << <<"skip_vols", "skip_vols">> >>)
    \cup Conn(Sub(name, "boldbuffer"),
              Sub(Sub(name, "bold_stc_wf"), "inputnode"),
              << <<"bold_file", "bold_file">> >>)
    \cup Conn(Sub(Sub(name, "bold_stc_wf"), "outputnode"),
              Sub(name, "boldbuffer"), << <<"stc_file", "bold_file">> >>)

\* lines 169-174
ConnectSTCEdges(name) ==
    Conn(Sub(Sub(name, "bold_reference_wf"), "outputnode"),
         Sub(Sub(name, "bold_stc_wf"), "inputnode"),
         << <<"skip_vols", "skip_vols">>, <<"bold_file", "bold_file">> >>)
    \cup Conn(Sub(Sub(name, "bold_stc_wf"), "outputnode"),
              Sub(name, "boldbuffer"), << <<"stc_file", "bold_file">> >>)

\* lines 176-179
ConnectNoSTCEdges(name) ==
    Conn(Sub(Sub(name, "bold_reference_wf"), "outputnode"),
         Sub(name, "boldbuffer"), << <<"bold_file", "bold_file">> >>)

\* lines 181-184
ConnectBiasEdges(name) ==
    Conn(Sub(Sub(name, "bias_cor_wf"), "outputnode"),
         Sub(Sub(name, "bold_reg_wf"), "inputnode"),
         << <<"corrected_EPI", "ref_bold_brain">> >>)

\* lines 187-189
ConnectFieldwarpEdges(name) ==
    Conn(Sub(Sub(name, "bold_reg_wf"), "outputnode"),
         Sub(Sub(name, "bold_bold_trans_wf"), "inputnode"),
         << <<"itk_bold_to_anat", "fieldwarp">> >>)

\* everything lines 77-114 construct under configuration c
MainParts(c, name) ==
    { Part("inputnode", SingleNode(main_inputnode(name))),
      Part("outputnode", SingleNode(main_outputnode(name))),
      Part("bold_reference_wf",
           init_bold_reference_wf(Sub(name, "bold_reference_wf"))),
      Part("bias_cor_wf",
           bias_correction_wf(c.iterative_N4, Sub(name, "bias_cor_wf"))),
      Part("boldbuffer", SingleNode(boldbuffer(name))),
      Part("bold_hmc_wf", init_bold_hmc_wf(Sub(name, "bold_hmc_wf"))),
      Part("bold_reg_wf", init_bold_reg_wf(c.use_syn, Sub(name, "bold_reg_wf"))),
      Part("bold_bold_trans_wf",
           init_bold_preproc_trans_wf(Sub(name, "bold_bold_trans_wf"))),
      Part("bold_confs_wf",
           init_bold_confs_wf(c.apply_GSR, Sub(name, "bold_confs_wf"))) }
    \cup
    (IF c.apply_STC
     THEN { Part("bold_stc_wf", init_bold_stc_wf("TR", Sub(name, "bold_stc_wf"))) }
     ELSE {})

\* the workflow init_func_preproc_wf returns under configuration c
init_func_preproc_wf(c, name) ==
    LET P  == MainParts(c, name)
        g1 == Connect(EmptyWf, P, ConnectMainEdges(name))
        g2 == Connect(g1, P, IF c.apply_STC THEN ConnectSTCEdges(name)
                                            ELSE ConnectNoSTCEdges(name))
        g3 == Connect(g2, P, ConnectBiasEdges(name))
    IN  Connect(g3, P, ConnectFieldwarpEdges(name))

(***************************************************************************)
(* Reading a workflow                                                      *)
(***************************************************************************)
NodeOf(G, name) == CHOOSE nd \in G.nodes : nd.name = name

IsIdentity(G, name) ==
    \E nd \in G.nodes : nd.name = name /\ nd.iface = "IdentityInterface"

EdgesInto(G, n, q) == { e \in G.edges : e[3] = n /\ e[4] = q }

\* The outputs that reach input port q of node n: edges are followed
\* backwards through identity nodes up to the output of a stage, or to a
\* port of an identity node that nothing feeds at all (a workflow input).
RECURSIVE Origins(_, _, _)
Origins(G, n, q) ==
    UNION { IF IsIdentity(G, e[1])
            THEN IF \E f \in G.edges : f[3] = e[1]
                 THEN Origins(G, e[1], e[2])
                 ELSE {<<e[1], e[2]>>}
            ELSE {<<e[1], e[2]>>} : e \in EdgesInto(G, n, q) }

\* Kahn: peel the nodes without a predecessor left, until none remains
RECURSIVE Peel(_, _)
Peel(N, E) ==
    IF N = {} THEN TRUE
    ELSE LET S == { n \in N : ~\E e \in E : e[3] = n /\ e[1] \in N }
         IN  IF S = {} THEN FALSE ELSE Peel(N \ S, E)

Acyclic(G) ==
    Peel(Names(G.nodes) \cup { e[1] : e \in G.edges }
                        \cup { e[3] : e \in G.edges }, G.edges)

(***************************************************************************)
(* Idle values of the variables a specification does not use               *)
(***************************************************************************)
NoInput == [clean_ok |-> FALSE]

NoFile == [size |-> 0, shape |-> <<>>]

NoMem == [bold_tlen |-> 0, mem_gb |-> <<>>]

NoCfg == [apply_STC |-> FALSE, apply_GSR |-> FALSE,
          use_syn |-> FALSE, iterative_N4 |-> FALSE]

IdleRegress == inp = NoInput /\ res = NoResult /\ fs = NoFiles

IdleMem == bold_file = NoFile /\ mem = NoMem

IdleBuild ==
    /\ cfg = NoCfg /\ target = <<>> /\ pc = "idle"
    /\ nodes = {} /\ edges = {} /\ parts = {}

IdleRun ==
    /\ env = <<>> /\ deps = <<>> /\ status = <<>> /\ results = <<>>
    /\ writes = {}

(***************************************************************************)
(* Specification of one ConfoundRegression invocation                      *)
(***************************************************************************)
InitRegress ==
    /\ inp \in RegressionInputs
    /\ res = NoResult
    /\ fs = NoFiles
    /\ IdleMem /\ IdleBuild /\ IdleRun

ConfoundRegression_run ==
    /\ inp # NoInput
    /\ res.outcome = "none"
    /\ LET r == RunInterface(inp, "cwd", fs)
       IN  res' = r.res /\ fs' = r.fs
    /\ UNCHANGED <<inp, bold_file, mem, cfg, target, pc, nodes, edges,
                   parts, env, deps, status, results,
          writes>>

NextRegress == ConfoundRegression_run

SpecRegress == InitRegress /\ [][NextRegress]_vars

(***************************************************************************)
(* Specification of the memory estimate                                    *)
(***************************************************************************)
InitMem ==
    /\ bold_file \in BoldFiles
    /\ mem = NoMem
    /\ IdleRegress /\ IdleBuild /\ IdleRun

CreateMemGb ==
    /\ bold_file # NoFile
    /\ mem = NoMem
    /\ mem' = _create_mem_gb(bold_file)
    /\ UNCHANGED <<inp, res, fs, bold_file, cfg, target, pc, nodes, edges,
                   parts, env, deps, status, results,
          writes>>

NextMem == CreateMemGb

SpecMem == InitMem /\ [][NextMem]_vars

(***************************************************************************)
(* Specification of the construction of a workflow, statement by statement *)
(***************************************************************************)
MainName == <<"main_wf">>

CommonName == <<"bold_commonspace_trans_wf">>

Built == [nodes |-> nodes, edges |-> edges]

InitBuild ==
    /\ target \in {MainName, CommonName}
    /\ cfg \in IF target = MainName THEN Configs ELSE {NoCfg}
    /\ pc = "start"
    /\ parts = {} /\ nodes = {} /\ edges = {}
    /\ IdleRegress /\ IdleMem /\ IdleRun

BuildFrame == UNCHANGED <<inp, res, fs, bold_file, mem, cfg, target,
                          env, deps, status, results,
          writes>>

\* a statement that constructs something and connects nothing
Construct(from, to, new) ==
    /\ target = MainName /\ pc = from
    /\ pc' = to
    /\ parts' = parts \cup new
    /\ UNCHANGED <<nodes, edges>>
    /\ BuildFrame

\* a workflow.connect statement
Connecting(from, to, E) ==
    /\ target = MainName /\ pc = from
    /\ pc' = to
    /\ LET g == Connect(Built, parts, E)
       IN  nodes' = g.nodes /\ edges' = g.edges
    /\ UNCHANGED parts
    /\ BuildFrame

\* lines 77-88
NewWorkflow ==
    Construct("start", "bold_reference_wf",
              { Part("inputnode", SingleNode(main_inputnode(target))),
                Part("outputnode", SingleNode(main_outputnode(target))) })

\* line 91
ConstructReferenceWf ==
    Construct("bold_reference_wf", "bias_cor_wf",
              { Part("bold_reference_wf",
                     init_bold_reference_wf(Sub(target, "bold_reference_wf"))) })

\* line 92
ConstructBiasCorWf ==
    Construct("bias_cor_wf", "bold_stc_wf",
              { Part("bias_cor_wf",
                     bias_correction_wf(cfg.iterative_N4,
                                        Sub(target, "bias_cor_wf"))) })

\* lines 94-95
ConstructStcWf ==
    Construct("bold_stc_wf", "boldbuffer",
              IF cfg.apply_STC
              THEN { Part("bold_stc_wf", init_bold_stc_wf("TR", Sub(target, "bold_stc_wf"))) }
              ELSE {})

\* line 98
ConstructBoldbuffer ==
    Construct("boldbuffer", "bold_hmc_wf",
              { Part("boldbuffer", SingleNode(boldbuffer(target))) })

\* lines 101-102
ConstructHmcWf ==
    Construct("bold_hmc_wf", "bold_reg_wf",
              { Part("bold_hmc_wf",
                     init_bold_hmc_wf(Sub(target, "bold_hmc_wf"))) })

\* line 104
ConstructRegWf ==
    Construct("bold_reg_wf", "bold_bold_trans_wf",
              { Part("bold_reg_wf",
                     init_bold_reg_wf(cfg.use_syn, Sub(target, "bold_reg_wf"))) })

\* lines 107-112
ConstructTransWf ==
    Construct("bold_bold_trans_wf", "bold_confs_wf",
              { Part("bold_bold_trans_wf",
                     init_bold_preproc_trans_wf(
                        Sub(target, "bold_bold_trans_wf"))) })

\* line 114
ConstructConfsWf ==
    Construct("bold_confs_wf", "connect_main",
              { Part("bold_confs_wf",
                     init_bold_confs_wf(cfg.apply_GSR,
                                        Sub(target, "bold_confs_wf"))) })

\* lines 118-166
ConnectMain ==
    Connecting("connect_main", "connect_stc", ConnectMainEdges(target))

\* lines 168-174
ConnectSTC ==
    /\ cfg.apply_STC
    /\ Connecting("connect_stc", "connect_bias", ConnectSTCEdges(target))

\* lines 175-179
ConnectNoSTC ==
    /\ ~cfg.apply_STC
    /\ Connecting("connect_stc", "connect_bias", ConnectNoSTCEdges(target))

\* lines 181-184
ConnectBias ==
    Connecting("connect_bias", "connect_fieldwarp",
               ConnectBiasEdges(target))

\* lines 187-191
ConnectFieldwarp ==
    Connecting("connect_fieldwarp", "done", ConnectFieldwarpEdges(target))

\* init_bold_commonspace_trans_wf, its single connect statement included
BuildCommonspace ==
    /\ target = CommonName /\ pc = "start"
    /\ pc' = "done"
    /\ LET g == init_bold_commonspace_trans_wf(target)
       IN  nodes' = g.nodes /\ edges' = g.edges
    /\ UNCHANGED parts
    /\ BuildFrame

NextBuild ==
    \/ NewWorkflow
    \/ ConstructReferenceWf
    \/ ConstructBiasCorWf
    \/ ConstructStcWf
    \/ ConstructBoldbuffer
    \/ ConstructHmcWf
    \/ ConstructRegWf
    \/ ConstructTransWf
    \/ ConstructConfsWf
    \/ ConnectMain
    \/ ConnectSTC
    \/ ConnectNoSTC
    \/ ConnectBias
    \/ ConnectFieldwarp
    \/ BuildCommonspace

SpecBuild == InitBuild /\ [][NextBuild]_vars

(***************************************************************************)
(* Specification of a run of the workflow init_func_preproc_wf built       *)
(*                                                                         *)
(* The identity nodes only pass values on: a stage consumes the outputs of *)
(* the stages that reach its input ports through them.  A stage starts     *)
(* once all of these have completed, at most MaxThreads stages run at a    *)
(* time, and a running stage completes or fails.                           *)
(***************************************************************************)
StageNames(G) == { nd.name : nd \in { x \in G.nodes :
                                        x.iface # "IdentityInterface" } }

Deps(G, n) ==
    { o[1] : o \in UNION { Origins(G, n, q) : q \in NodeOf(G, n).ins } }
    \cap StageNames(G)

Leaf(name) == name[Len(name)]

IsRegression(G, n) == NodeOf(G, n).iface = "ConfoundRegression"

\* what the external stages leave for the regression: the resampled series,
\* the skull-stripped series, the motion table (one row per volume, or one
\* row too many) and the three masks
RunEnvs ==
    { [bold |-> BoldSeries(n, 1), stripped |-> BoldSeries(n, 2),
       movpar_file |-> MovparTable(n + d, 8),
       WM_mask |-> {1}, CSF_mask |-> {NVox}, brain_mask |-> Voxels,
       labels |-> [v \in Voxels |-> v]] :
        n \in 1..MaxRunVols, d \in 0..1 }

NoArtifact == <<>>

\* the artifact behind the output port o = <<stage, port>>
Artifact(e, o) ==
    CASE Leaf(o[1]) = "skullstrip" /\ o[2] = "skullstrip_brain" -> e.stripped
      [] Leaf(o[1]) = "merge" /\ o[2] = "out_file" -> e.bold
      [] Leaf(o[1]) = "ants_MC" /\ o[2] = "csv_params" -> e.movpar_file
      [] Leaf(o[1]) = "WM_mask_EPI" /\ o[2] = "EPI_mask" -> e.WM_mask
      [] Leaf(o[1]) = "CSF_mask_EPI" /\ o[2] = "EPI_mask" -> e.CSF_mask
      [] Leaf(o[1]) = "Brain_mask_EPI" /\ o[2] = "EPI_mask" -> e.brain_mask
      [] Leaf(o[1]) = "prop_labels_EPI" /\ o[2] = "EPI_mask" -> e.labels
      [] OTHER -> NoArtifact

\* the value input port q of node n receives
InputOf(G, e, n, q) == Artifact(e, CHOOSE o \in Origins(G, n, q) : TRUE)

\* the inputs of ConfoundRegression node n
RegressionInputOf(G, e, n, ok) ==
    [bold        |-> InputOf(G, e, n, "bold"),
     movpar_file |-> InputOf(G, e, n, "movpar_file"),
     brain_mask  |-> InputOf(G, e, n, "brain_mask"),
     WM_mask     |-> InputOf(G, e, n, "WM_mask"),
     CSF_mask    |-> InputOf(G, e, n, "CSF_mask"),
     apply_GSR   |-> <<"apply_GSR", "True">> \in NodeOf(G, n).set,
     clean_ok    |-> ok]

\* use_syn and iterative_N4 only set parameters inside the registration and
\* bias-correction stages; the stages and edges of the workflow, and so its
\* runs, are the same for all their values
RunConfigs == { c \in Configs : c.use_syn /\ c.iterative_N4 }

InitRun ==
    /\ target = MainName
    /\ cfg \in RunConfigs
    /\ pc = "done"
    /\ parts = {}
    /\ LET G == init_func_preproc_wf(cfg, target)
       IN  /\ nodes = G.nodes
           /\ edges = G.edges
           /\ deps = [n \in StageNames(G) |-> Deps(G, n)]
           /\ status = [n \in StageNames(G) |-> "waiting"]
           /\ results = [n \in { m \in StageNames(G) : IsRegression(G, m) }
                           |-> NoResult]
    /\ writes = {}
    /\ env \in RunEnvs
    /\ fs = NoFiles
    /\ inp = NoInput /\ res = NoResult
    /\ IdleMem

Running == { n \in DOMAIN status : status[n] = "running" }

RunFrame == UNCHANGED <<inp, res, bold_file, mem, cfg, target, pc, nodes,
                        edges, parts, env, deps>>

StartStage(n) ==
    /\ status[n] = "waiting"
    /\ \A d \in deps[n] : status[d] = "done"
    /\ Cardinality(Running) < MaxThreads
    /\ status' = [status EXCEPT ![n] = "running"]
    /\ UNCHANGED <<fs, results, writes>>
    /\ RunFrame

IsMaskEPI(n) == \E nd \in nodes : nd.name = n /\ nd.iface = "MaskEPI"

\* an external stage completes
FinishStage(n) ==
    /\ status[n] = "running"
    /\ n \notin DOMAIN results
    /\ ~IsMaskEPI(n)
    /\ status' = [status EXCEPT ![n] = "done"]
    /\ UNCHANGED <<fs, results, writes>>
    /\ RunFrame

\* an external stage fails
FailStage(n) ==
    /\ status[n] = "running"
    /\ n \notin DOMAIN results
    /\ status' = [status EXCEPT ![n] = "failed"]
    /\ UNCHANGED <<fs, results, writes>>
    /\ RunFrame

\* a ConfoundRegression node runs its interface in its own directory
RunRegression(n) ==
    /\ status[n] = "running"
    /\ n \in DOMAIN results
    /\ \E ok \in BOOLEAN :
         LET r == RunInterface(RegressionInputOf(Built, env, n, ok), n, fs)
         IN  /\ results' = [results EXCEPT ![n] = r.res]
             /\ fs' = r.fs
             /\ writes' = writes \cup { <<n, p>> : p \in r.written }
             /\ status' = [status EXCEPT
                             ![n] = IF r.res.outcome = "ok"
                                    THEN "done" ELSE "failed"]
    /\ RunFrame

\* a MaskEPI node runs its interface in its own directory
RunMaskEPI(n) ==
    /\ status[n] = "running"
    /\ IsMaskEPI(n)
    /\ LET r == MaskEPI_run(n, fs, Artifact(env, <<n, "EPI_mask">>))
       IN  /\ fs' = r.fs
           /\ writes' = writes \cup {<<n, r.path>>}
    /\ status' = [status EXCEPT ![n] = "done"]
    /\ UNCHANGED results
    /\ RunFrame

NextRun ==
    \/ \E n \in DOMAIN status : StartStage(n)
    \/ \E n \in DOMAIN status : FinishStage(n)
    \/ \E n \in DOMAIN status : FailStage(n)
    \/ \E n \in DOMAIN status : RunRegression(n)
    \/ \E n \in DOMAIN status : RunMaskEPI(n)

SpecRun == InitRun /\ [][NextRun]_vars

(***************************************************************************)
(* Properties of ConfoundRegression (checked under SpecRegress)            *)
(***************************************************************************)
\* the invocation got as far as choosing the regressors
Regressed == res.outcome = "ok" \/ res.outcome = "CleanError"

TableWritten == abspath("cwd", "confounds.csv") \in DOMAIN fs

TableOnDisk == fs[abspath("cwd", "confounds.csv")]

DataRows(table) == Len(table) - 1

\* C1: ConfoundRegression hands clean_bold all 9 columns (0..8) when
\* apply_GSR is true and exactly the columns 0,1,3,4,5,6,7,8 when it is
\* false: the global-signal column 2 is the one and only column left out.
C1_RegressionSubset ==
    Regressed =>
        /\ res.cols = IF inp.apply_GSR
                      THEN <<0, 1, 2, 3, 4, 5, 6, 7, 8>>
                      ELSE <<0, 1, 3, 4, 5, 6, 7, 8>>
        /\ res.outcome = "ok" =>
              fs[res.cleaned_bold].regressors =
                  TakeCols(res.confounds,
                           IF inp.apply_GSR
                           THEN <<0, 1, 2, 3, 4, 5, 6, 7, 8>>
                           ELSE <<0, 1, 3, 4, 5, 6, 7, 8>>)

\* C2: whenever the motion table's number of data rows differs from the
\* number of volumes of the series (a single data row included), the
\* invocation fails with an error: no confound matrix is built, no table
\* is written and nothing is regressed.
C2_RowMismatchRejected ==
    (res.outcome # "none"
        /\ DataRows(inp.movpar_file) # Len(inp.bold)) =>
            /\ (res.outcome = "ValueError" \/ res.outcome = "IndexError")
            /\ res.confounds = <<>>
            /\ ~TableWritten

\* C4 as stated: for either value of apply_GSR the written table holds
\* exactly the 9 named columns in order, one row per volume; read back, its
\* columns are those 9 and its rows are the rows of the matrix.
C4_TableRoundTrip ==
    TableWritten =>
        /\ TableOnDisk.header = csv_columns
        /\ Len(TableOnDisk.rows) = Len(inp.bold)
        /\ \A t \in 1..Len(TableOnDisk.rows) :
              Len(TableOnDisk.rows[t]) = num_confounds

\* C4 amended: for either value of apply_GSR the written table has one
\* row per volume and 10 fields per line: an index column with an empty
\* label first, then the 9 named columns in order; each line holds the row
\* index followed by the full 9-column matrix row (WM, CSF and global trace
\* first).
C4_TableWithIndex ==
    TableWritten =>
        /\ Len(TableOnDisk.header) = num_confounds + 1
        /\ TableOnDisk.header[1] = ""
        /\ Tail(TableOnDisk.header) =
              <<"WM_signal", "CSF_signal", "global_signal",
                "mov1", "mov2", "mov3", "rot1", "rot2", "rot3">>
        /\ Len(TableOnDisk.rows) = Len(inp.bold)
        /\ \A t \in 1..Len(TableOnDisk.rows) :
              /\ Len(TableOnDisk.rows[t]) = num_confounds + 1
              /\ TableOnDisk.rows[t][1] = t - 1
              /\ Tail(TableOnDisk.rows[t]) = res.confounds[t]
              /\ TableOnDisk.rows[t][2] =
                    extract_mask_trace(inp.bold, inp.WM_mask)[t]
              /\ TableOnDisk.rows[t][3] =
                    extract_mask_trace(inp.bold, inp.CSF_mask)[t]
              /\ TableOnDisk.rows[t][4] =
                    extract_mask_trace(inp.bold, inp.brain_mask)[t]

\* a table written by a run without global-signal regression, several
\* volumes long
C4_Witness ==
    /\ TableWritten
    /\ res.outcome = "ok"
    /\ ~inp.apply_GSR
    /\ Len(inp.bold) >= 2

\* the data rows of the motion table given to the invocation
MovparRows == Tail(inp.movpar_file)

\* every row of the table holds a volume index and 6 motion values
IndexPlusSix ==
    \A j \in 1..Len(inp.movpar_file) : Len(inp.movpar_file[j]) = 7

\* C12: for a motion table of one header row and N data rows, each a volume
\* index followed by 6 motion values, extract_rigid_movpar returns N rows
\* of 6 entries, row j holding in order the 6 motion values of data row j:
\* only the header is discarded, no value is dropped, no entry stays 0.
C12_MovparAllSix ==
    (res.outcome # "none" /\ IndexPlusSix) =>
        LET mp == extract_rigid_movpar(inp.movpar_file)
        IN  /\ mp.err = "none"
            /\ Len(mp.movpar) = Len(MovparRows)
            /\ \A j \in 1..Len(MovparRows) : \A c \in 1..6 :
                  /\ mp.movpar[j][c] = float(MovparRows[j][c + 1])
                  /\ mp.movpar[j][c] # RInt(0)
            /\ (Regressed /\ Len(MovparRows) = Len(inp.bold)) =>
                  \A t \in 1..Len(inp.bold) : \A c \in 1..6 :
                     res.confounds[t][3 + c] = float(MovparRows[t][c + 1])

(***************************************************************************)
(* Properties of _create_mem_gb (checked under SpecMem)                    *)
(***************************************************************************)
SizeUnits(f) == f.size \div SizeUnit

UnitsPerGiB == GiB \div SizeUnit

Tlen(f) == f.shape[Len(f.shape)]

Max(a, b) == IF a >= b THEN a ELSE b

\* filesize = base and resampled = 4 x base, in integers
C10_Base ==
    /\ mem.mem_gb.filesize.n * UnitsPerGiB
         = mem.mem_gb.filesize.d * SizeUnits(bold_file)
    /\ mem.mem_gb.resampled.n * UnitsPerGiB
         = mem.mem_gb.resampled.d * 4 * SizeUnits(bold_file)

\* C10 as stated: filesize = base, resampled = 4 x base and
\* largemem = base x max(L/100, 1.0) + 4, the 4 added after the
\* multiplication by base.
C10_LargememAddAfter ==
    mem # NoMem =>
        /\ C10_Base
        /\ mem.mem_gb.largemem.n * 100 * UnitsPerGiB
             = mem.mem_gb.largemem.d
                 * (SizeUnits(bold_file) * Max(Tlen(bold_file), 100)
                    + 4 * 100 * UnitsPerGiB)

\* C10 amended: filesize = base, resampled = 4 x base and
\* largemem = base x (max(L/100, 1.0) + 4): the 4 is added to the length
\* factor before the multiplication by base.
C10_LargememAddBefore ==
    mem # NoMem =>
        /\ mem.bold_tlen = Tlen(bold_file)
        /\ C10_Base
        /\ mem.mem_gb.largemem.n * 100 * UnitsPerGiB
             = mem.mem_gb.largemem.d
                 * SizeUnits(bold_file) * (Max(Tlen(bold_file), 100) + 400)

\* an estimate for a series longer than 100 volumes whose size is not 1 GB
C10_Witness ==
    /\ mem # NoMem
    /\ Tlen(bold_file) > 100
    /\ bold_file.size # GiB

(***************************************************************************)
(* Properties of the built graphs (checked under SpecBuild)                *)
(***************************************************************************)
MainBuilt == target = MainName /\ pc = "done"

\* the statement-by-statement construction ends in the workflow
\* init_func_preproc_wf denotes
BuildAgrees ==
    MainBuilt => Built = init_func_preproc_wf(cfg, target)

\* the nodes of the slice-timing workflow inside workflow `name`
StcNames(name) ==
    Names(init_bold_stc_wf("TR", Sub(name, "bold_stc_wf")).nodes)

GSRNode == Sub(Sub(target, "bold_confs_wf"), "GSR_confound_regression")

\* edges that exist only to serve the slice-timing workflow
StcEdges == { e \in edges : e[1] \in StcNames(target) \/ e[3] \in StcNames(target) }

\* edges that exist only to serve the second regression: those at the
\* GSR_confound_regression node and those that carry its output on
GSREdges ==
    { e \in edges : \/ e[1] = GSRNode \/ e[3] = GSRNode
                    \/ e[2] = "GSR_cleaned_bold"
                    \/ e[4] = "GSR_cleaned_bold" }

\* C5: in the built graph an optional stage is present if and only if its
\* flag is true (the slice-timing sub-workflow iff apply_STC, the
\* GSR_confound_regression node iff apply_GSR), and with a flag false no
\* edge gated by it exists, the edge carrying GSR_cleaned_bold to the
\* top-level outputnode included.
C5_ConditionalInclusion ==
    MainBuilt =>
        /\ (StcNames(target) \subseteq Names(nodes)) <=> cfg.apply_STC
        /\ (StcNames(target) \cap Names(nodes) # {}) <=> cfg.apply_STC
        /\ (GSRNode \in Names(nodes)) <=> cfg.apply_GSR
        /\ ~cfg.apply_STC => StcEdges = {}
        /\ ~cfg.apply_GSR => GSREdges = {}

\* every edge starts and ends on a port its node declares
EdgesOnDeclaredPorts(G) ==
    \A e \in G.edges :
        /\ \E nd \in G.nodes : nd.name = e[1] /\ e[2] \in nd.outs
        /\ \E nd \in G.nodes : nd.name = e[3] /\ e[4] \in nd.ins

\* the producers bound to input port q of node nd: the stage outputs and
\* workflow inputs that reach it, and the constant set at construction
Producers(G, nd, q) ==
    Cardinality(Origins(G, nd.name, q))
    + Cardinality({ st \in nd.set : st[1] = q })

MandatoryPortsBound(G) ==
    \A nd \in G.nodes : \A q \in nd.mandatory : Producers(G, nd, q) = 1

\* C6: every composed workflow that construction returns has every
\* mandatory input port of every stage bound to exactly one producer and
\* every edge on a declared port (a composition without this is rejected,
\* so construction never returns it).
C6_PortsBound ==
    pc = "done" =>
        /\ EdgesOnDeclaredPorts(Built)
        /\ MandatoryPortsBound(Built)

\* C7: for all 16 combinations of apply_STC, apply_GSR, use_syn and
\* iterative_N4 the graph built by init_func_preproc_wf, sub-workflows
\* expanded to their nodes and edges, is acyclic.
C7_Acyclic == MainBuilt => Acyclic(Built)

\* the full graph, both optional parts included
C7_Witness ==
    /\ MainBuilt
    /\ cfg.apply_STC /\ cfg.apply_GSR
    /\ StcEdges # {} /\ GSREdges # {}
    /\ Cardinality(edges) > Cardinality(nodes)

(***************************************************************************)
(* Properties of a run (checked under SpecRun)                             *)
(***************************************************************************)
ConfsWf == Sub(target, "bold_confs_wf")

CRNode == Sub(ConfsWf, "confound_regression")

TopOut == Sub(target, "outputnode")

RegressionPorts == <<"bold", "movpar_file", "brain_mask", "WM_mask", "CSF_mask">>

\* node n got as far as building and writing its confound table
HasTable(n) ==
    results[n].outcome = "ok" \/ results[n].outcome = "CleanError"

\* C8: with apply_GSR true the confound workflow holds exactly two
\* regression nodes, confound_regression with apply_GSR false and
\* GSR_confound_regression with apply_GSR true, fed port by port from the
\* same producers; cleaned_bold and confounds_csv come from the first,
\* GSR_cleaned_bold from the second; and when both have run they have
\* built and written the same 9-column table, the first regressing without
\* and the second with the flag.
C8_TwoRegressions ==
    cfg.apply_GSR =>
        /\ DOMAIN results = {CRNode, GSRNode}
        /\ <<"apply_GSR", "False">> \in NodeOf(Built, CRNode).set
        /\ <<"apply_GSR", "True">> \in NodeOf(Built, GSRNode).set
        /\ \A i \in 1..Len(RegressionPorts) :
              /\ Origins(Built, CRNode, RegressionPorts[i])
                   = Origins(Built, GSRNode, RegressionPorts[i])
              /\ Cardinality(Origins(Built, CRNode, RegressionPorts[i])) = 1
        /\ Origins(Built, TopOut, "cleaned_bold")
             = {<<CRNode, "cleaned_bold">>}
        /\ Origins(Built, TopOut, "confounds_csv")
             = {<<CRNode, "confounds_csv">>}
        /\ Origins(Built, TopOut, "GSR_cleaned_bold")
             = {<<GSRNode, "cleaned_bold">>}
        /\ (HasTable(CRNode) /\ HasTable(GSRNode)) =>
              /\ results[CRNode].confounds = results[GSRNode].confounds
              /\ fs[abspath(CRNode, "confounds.csv")]
                   = fs[abspath(GSRNode, "confounds.csv")]
              /\ results[CRNode].cols = RegressedCols(FALSE)
              /\ results[GSRNode].cols = RegressedCols(TRUE)

\* both regressions have completed
C8_Witness ==
    /\ cfg.apply_GSR
    /\ status[CRNode] = "done" /\ status[GSRNode] = "done"
    /\ results[CRNode].outcome = "ok" /\ results[GSRNode].outcome = "ok"

Started(n) == status[n] # "waiting"

StageDone(wf, n) == status[Sub(Sub(target, wf), n)] = "done"

\* C9: a stage has started only if every stage that feeds one of its
\* input ports has completed; a regression node has started only if motion
\* estimation, transform and merge, the skull strip and the three mask
\* transformers have all completed; and the outputs of the regression nodes
\* go to the outputnode of the confound workflow, from there to the
\* top-level outputnode, and nowhere else.
C9_Ordering ==
    /\ \A n \in DOMAIN status :
          Started(n) => \A d \in deps[n] : status[d] = "done"
    /\ \A e \in edges :
          (e[1] \in DOMAIN status /\ e[3] \in DOMAIN status
             /\ Started(e[3])) => status[e[1]] = "done"
    /\ \A r \in DOMAIN results :
          Started(r) =>
             /\ StageDone("bold_hmc_wf", "ants_MC")
             /\ StageDone("bold_bold_trans_wf", "bold_transform")
             /\ StageDone("bold_bold_trans_wf", "merge")
             /\ StageDone("bold_confs_wf", "skullstrip")
             /\ StageDone("bold_confs_wf", "WM_mask_EPI")
             /\ StageDone("bold_confs_wf", "CSF_mask_EPI")
             /\ StageDone("bold_confs_wf", "Brain_mask_EPI")
    /\ \A e \in edges :
          /\ e[1] \in DOMAIN results => e[3] = Sub(ConfsWf, "outputnode")
          /\ e[1] = Sub(ConfsWf, "outputnode") => e[3] = TopOut
          /\ e[1] # TopOut

\* a regression running beside a stage that is independent of it
C9_Witness ==
    /\ status[CRNode] = "running"
    /\ status[Sub(ConfsWf, "prop_labels_EPI")] = "running"

\* the run is over: nothing is running and nothing waiting can start
RunEnded ==
    /\ DOMAIN status # {}
    /\ \A n \in DOMAIN status :
          /\ status[n] # "running"
          /\ status[n] = "waiting" => \E d \in deps[n] : status[d] # "done"

Succeeded == \A n \in DOMAIN status : status[n] = "done"

OutputPorts == NodeOf(Built, TopOut).ins

\* output port p of the workflow is bound to a produced artifact: something
\* feeds it, and what feeds it is an input of the workflow or the output of
\* a stage that has completed
Bound(p) ==
    LET os == Origins(Built, TopOut, p)
    IN  /\ os # {}
        /\ \A o \in os : o[1] \in DOMAIN status => status[o[1]] = "done"

\* output port p shows the output of a completed stage
Exposed(p) ==
    \E o \in Origins(Built, TopOut, p) :
        o[1] \in DOMAIN status /\ status[o[1]] = "done"

\* C11: a run of the built workflow ends either in success with every port
\* declared on the top-level outputnode bound to a produced artifact
\* (GSR_cleaned_bold too, for either value of apply_GSR), or in failure
\* with no output exposed; and a ConfoundRegression node exposes
\* cleaned_bold and confounds_csv both or not at all, also when clean_bold
\* fails after the table was written.
C11_AllOrNothing ==
    /\ RunEnded =>
          \/ Succeeded /\ \A p \in OutputPorts : Bound(p)
          \/ ~Succeeded /\ \A p \in OutputPorts : ~Exposed(p)
    /\ \A r \in DOMAIN results :
          (results[r].cleaned_bold = <<>>) <=> (results[r].confounds_csv = <<>>)

MaskNodes == { n \in DOMAIN status : IsMaskEPI(n) }

\* the file stage n wrote at path p still holds what n wrote
HoldsOwnOutput(n, p) ==
    /\ p \in DOMAIN fs
    /\ IsMaskEPI(n) => fs[p] = Artifact(env, <<n, "EPI_mask">>)
    /\ (n \in DOMAIN results /\ p = abspath(n, "confounds.csv")) =>
          fs[p] = to_csv(results[n].confounds, csv_columns)
    /\ (n \in DOMAIN results /\ p = abspath(n, "cleaned.nii.gz")) =>
          fs[p].regressors = TakeCols(results[n].confounds, results[n].cols)

=============================================================================
